---- MODULE Spec2Model ----
(***************************************************************************)
(* Model of the watch-worthy excitement scorer (excitement.py), of the     *)
(* single-game front end (exciting_game.py) and of the two batch rankers   *)
(* (daily_exciting_games.py, generate_weekly_plots.py).                    *)
(*                                                                         *)
(* Probabilities are Python floats in the source.  They are modelled as    *)
(* exact rationals [n |-> numerator, d |-> denominator] in lowest terms;   *)
(* the raw samples are drawn from a grid of hundredths.                    *)
(***************************************************************************)
EXTENDS Integers, Sequences, FiniteSets, TLC

\* ---------------------------------------------------------------- bounds
\* Largest number of records in one enumerated win-probability list.
MaxLen == 4
\* Largest number of games in one enumerated batch (all days together).
MaxGames == 3
\* Largest number of days the weekly ranker is run over.
MaxDays == 2

\* ------------------------------------------------------ rational numbers
Abs(x) == IF x < 0 THEN -x ELSE x

RECURSIVE GCD(_, _)
GCD(a, b) == IF b = 0 THEN a ELSE GCD(b, a % b)

\* A float value: the rational n/d in lowest terms, d > 0.
Rat(n, d) ==
    LET g == GCD(Abs(n), Abs(d))
        s == IF d < 0 THEN -1 ELSE 1
    IN  [n |-> (s * n) \div g, d |-> (s * d) \div g]

\* Python: a - b
RSub(a, b) == Rat(a.n * b.d - b.n * a.d, a.d * b.d)
\* Python: a + b
RAdd(a, b) == Rat(a.n * b.d + b.n * a.d, a.d * b.d)
\* Python: a * b
RMul(a, b) == Rat(a.n * b.n, a.d * b.d)
\* Python: a / b   (b is never zero where the source divides)
RDiv(a, b) == Rat(a.n * b.d, a.d * b.n)
\* Python: abs(a)
RAbs(a) == [n |-> Abs(a.n), d |-> a.d]
\* Python: a <= b
RLe(a, b) == a.n * b.d <= b.n * a.d
\* Python: a >= b
RGe(a, b) == RLe(b, a)
\* Python: a < b
RLt(a, b) == ~RLe(b, a)
\* Python: min(a, b)  (the first argument is returned on a tie)
RMin(a, b) == IF RLt(b, a) THEN b ELSE a
\* Python: an int used in float arithmetic
RInt(k) == [n |-> k, d |-> 1]

\* Python: sum(xs) over floats, starting from 0
RECURSIVE RSum(_)
RSum(xs) == IF xs = <<>> THEN RInt(0) ELSE RAdd(xs[1], RSum(Tail(xs)))

\* Mutant: the smallest element is taken (min written for max).
RECURSIVE RMaxTakesMin(_)
RMaxTakesMin(xs) ==
    IF Len(xs) = 1 THEN xs[1]
    ELSE LET m == RMaxTakesMin(Tail(xs)) IN IF RLt(m, xs[1]) THEN m ELSE xs[1]

\* Python: max(xs) over a non-empty list, the first maximum wins
RECURSIVE RMax(_)
RMax(xs) ==
    IF Len(xs) = 1 THEN xs[1]
    ELSE LET m == RMax(Tail(xs)) IN IF RLt(xs[1], m) THEN m ELSE xs[1]

\* ------------------------------------------------------------ raw input
\* A JSON value found under "homeWinPercentage":
\*   t = "num"  a JSON number, x hundredths
\*   t = "text" a string holding the decimal text of x hundredths
\*   t = "junk" a string that is not a number
\*   t = "null" JSON null (Python None)
Num(x) == [t |-> "num", x |-> x]
Text(x) == [t |-> "text", x |-> x]
Junk == [t |-> "junk", x |-> 0]
Null == [t |-> "null", x |-> 0]

\* A play record (a dict) with and without the probability key.
Play(v) == [playId |-> "p", homeWinPercentage |-> v]
NoField == [playId |-> "p"]

\* Python: float(v).  Numbers and numeric strings convert to their value,
\* other strings raise ValueError and None raises TypeError.
Float(v) ==
    CASE v.t = "num" -> [exc |-> "", val |-> Rat(v.x, 100)]
      [] v.t = "text" -> [exc |-> "", val |-> Rat(v.x, 100)]
      [] v.t = "junk" -> [exc |-> "ValueError", val |-> RInt(0)]
      [] v.t = "null" -> [exc |-> "TypeError", val |-> RInt(0)]

\* --------------------------------------------------------------- errors
\* A raised exception: its class, the fixed text of its message and the
\* values interpolated into the message.
Raise(exc, text, args) == [ok |-> FALSE, exc |-> exc, text |-> text, args |-> args]
Return(value) == [ok |-> TRUE, value |-> value]

MsgMissing == "winprobability[{index}] missing 'homeWinPercentage'"
MsgRange == "winprobability[{index}].homeWinPercentage must be between 0 and 1"
MsgEmpty == "No win probability data available"
MsgTooFew == "Need at least two win probability points to analyze the game"
MsgFloat == "could not convert to float"

\* ------------------------------------------------------------ validator
\* The loop of load_home_win_probabilities from record `index` (0-based)
\* on, `probabilities` being the list appended to so far.
RECURSIVE LoadLoop(_, _, _)
LoadLoop(source, index, probabilities) ==
    IF index >= Len(source)
    THEN IF probabilities = <<>>
         THEN Raise("ValueError", MsgEmpty, <<>>)
         ELSE Return(probabilities)
    ELSE LET play == source[index + 1] IN
         IF "homeWinPercentage" \notin DOMAIN play
         THEN Raise("KeyError", MsgMissing, <<index>>)
         ELSE LET f == Float(play.homeWinPercentage) IN
              IF f.exc # ""
              THEN Raise(f.exc, MsgFloat, <<>>)
              ELSE IF ~(RLe(RInt(0), f.val) /\ RLe(f.val, RInt(1)))
                   THEN Raise("ValueError", MsgRange, <<index>>)
                   ELSE LoadLoop(source, index + 1, Append(probabilities, f.val))

\* Mutant: the emptiness check after the loop is forgotten.
RECURSIVE LoadLoopNoEmptyCheck(_, _, _)
LoadLoopNoEmptyCheck(source, index, probabilities) ==
    IF index >= Len(source)
    THEN Return(probabilities)
    ELSE LET play == source[index + 1] IN
         IF "homeWinPercentage" \notin DOMAIN play
         THEN Raise("KeyError", MsgMissing, <<index>>)
         ELSE LET f == Float(play.homeWinPercentage) IN
              IF f.exc # ""
              THEN Raise(f.exc, MsgFloat, <<>>)
              ELSE IF ~(RLe(RInt(0), f.val) /\ RLe(f.val, RInt(1)))
                   THEN Raise("ValueError", MsgRange, <<index>>)
                   ELSE LoadLoopNoEmptyCheck(source, index + 1,
                                             Append(probabilities, f.val))

LoadNoEmptyCheck(source) == LoadLoopNoEmptyCheck(source, 0, <<>>)

\* Mutant: an out-of-range sample is dropped instead of being reported.
RECURSIVE LoadLoopDropsBad(_, _, _)
LoadLoopDropsBad(source, index, probabilities) ==
    IF index >= Len(source)
    THEN IF probabilities = <<>>
         THEN Raise("ValueError", MsgEmpty, <<>>)
         ELSE Return(probabilities)
    ELSE LET play == source[index + 1] IN
         IF "homeWinPercentage" \notin DOMAIN play
         THEN Raise("KeyError", MsgMissing, <<index>>)
         ELSE LET f == Float(play.homeWinPercentage) IN
              IF f.exc # ""
              THEN Raise(f.exc, MsgFloat, <<>>)
              ELSE IF ~(RLe(RInt(0), f.val) /\ RLe(f.val, RInt(1)))
                   THEN LoadLoopDropsBad(source, index + 1, probabilities)
                   ELSE LoadLoopDropsBad(source, index + 1,
                                         Append(probabilities, f.val))

LoadDropsBad(source) == LoadLoopDropsBad(source, 0, <<>>)

\* Mutant: all records are checked for the key first, the values after.
LoadKeysFirst(source) ==
    LET missing == {i \in 1..Len(source) : "homeWinPercentage" \notin DOMAIN source[i]}
    IN  IF missing # {}
        THEN Raise("KeyError", MsgMissing,
                   <<(CHOOSE i \in missing : \A j \in missing : i <= j) - 1>>)
        ELSE LoadLoop(source, 0, <<>>)

load_home_win_probabilities(source) == LoadLoop(source, 0, <<>>)

\* --------------------------------------------------------------- scorer
\* Python: zip(xs, xs[1:]) as a sequence of <<prev, curr>> pairs.
ZipAdjacent(xs) == [i \in 1..(Len(xs) - 1) |-> <<xs[i], xs[i + 1]>>]

\* Mutant: the swing keeps its sign (abs forgotten).
SwingsSigned(probabilities) ==
    [i \in 1..(Len(probabilities) - 1) |->
        RSub(probabilities[i + 1], probabilities[i])]

\* swings = [abs(curr - prev) for prev, curr in zip(...)]
Swings(probabilities) ==
    LET z == ZipAdjacent(probabilities)
    IN  [i \in 1..Len(z) |-> RAbs(RSub(z[i][2], z[i][1]))]

\* Mutant: the tie value 0.5 is counted for the away side (> for >=).
RECURSIVE CountFlipsStrict(_)
CountFlipsStrict(z) ==
    IF z = <<>> THEN 0
    ELSE (IF RLt(Rat(1, 2), z[1][1]) # RLt(Rat(1, 2), z[1][2]) THEN 1 ELSE 0)
         + CountFlipsStrict(Tail(z))

\* sum(1 for prev, curr in zip(...) if (prev >= 0.5) != (curr >= 0.5))
RECURSIVE CountFlips(_)
CountFlips(z) ==
    IF z = <<>> THEN 0
    ELSE (IF RGe(z[1][1], Rat(1, 2)) # RGe(z[1][2], Rat(1, 2)) THEN 1 ELSE 0)
         + CountFlips(Tail(z))

LeadChanges(probabilities) == CountFlips(ZipAdjacent(probabilities))

\* sum(1 for p in probabilities if 0.45 <= p <= 0.55)
RECURSIVE CountClose(_)
CountClose(ps) ==
    IF ps = <<>> THEN 0
    ELSE (IF RLe(Rat(45, 100), ps[1]) /\ RLe(ps[1], Rat(55, 100)) THEN 1 ELSE 0)
         + CountClose(Tail(ps))

\* Mutant: the toss-up count is divided by the number of swings.
CloseRatioOverSwings(probabilities) ==
    RDiv(RInt(CountClose(probabilities)), RInt(Len(probabilities) - 1))

CloseRatio(probabilities) ==
    RDiv(RInt(CountClose(probabilities)), RInt(Len(probabilities)))

\* Mutant: the max_swing term is not clamped at 1.0 before weighting.
RawScoreUnclampedTerm(avg_swing, max_swing, lead_changes, close_ratio) ==
    RAdd(RAdd(RAdd(
        RMul(RMin(RDiv(avg_swing, Rat(4, 100)), RInt(1)), Rat(5, 2)),
        RMul(RDiv(max_swing, Rat(18, 100)), Rat(5, 2))),
        RMul(RMin(RDiv(RInt(lead_changes), RInt(3)), RInt(1)), RInt(3))),
        RMul(RMin(RDiv(close_ratio, Rat(45, 100)), RInt(1)), RInt(2)))

\* The composite score before the final clamp.
RawScore(avg_swing, max_swing, lead_changes, close_ratio) ==
    RAdd(RAdd(RAdd(
        RMul(RMin(RDiv(avg_swing, Rat(4, 100)), RInt(1)), Rat(5, 2)),
        RMul(RMin(RDiv(max_swing, Rat(18, 100)), RInt(1)), Rat(5, 2))),
        RMul(RMin(RDiv(RInt(lead_changes), RInt(3)), RInt(1)), RInt(3))),
        RMul(RMin(RDiv(close_ratio, Rat(45, 100)), RInt(1)), RInt(2)))

\* Mutant: the two thresholds are tested in the wrong order.
VerdictSwapped(score) ==
    IF RGe(score, RInt(4)) THEN "Worth a look"
    ELSE IF RGe(score, Rat(65, 10)) THEN "Exciting"
    ELSE "Skip it"

Verdict(score) ==
    IF RGe(score, Rat(65, 10)) THEN "Exciting"
    ELSE IF RGe(score, RInt(4)) THEN "Worth a look"
    ELSE "Skip it"

\* Mutant: the total swing is divided by the number of samples.
CalculateAvgOverSamples(probabilities) ==
    IF Len(probabilities) < 2
    THEN Raise("ValueError", MsgTooFew, <<>>)
    ELSE LET swings == Swings(probabilities)
             total_swing == RSum(swings)
             avg_swing == RDiv(total_swing, RInt(Len(probabilities)))
             max_swing == RMax(swings)
             lead_changes == LeadChanges(probabilities)
             close_ratio == CloseRatio(probabilities)
             score == RMin(RawScore(avg_swing, max_swing, lead_changes, close_ratio),
                           RInt(10))
         IN  Return([score |-> score,
                     verdict |-> Verdict(score),
                     lead_changes |-> lead_changes,
                     avg_swing |-> avg_swing,
                     max_swing |-> max_swing,
                     close_ratio |-> close_ratio])

calculate_excitement(probabilities) ==
    IF Len(probabilities) < 2
    THEN Raise("ValueError", MsgTooFew, <<>>)
    ELSE LET swings == Swings(probabilities)
             total_swing == RSum(swings)
             avg_swing == RDiv(total_swing, RInt(Len(swings)))
             max_swing == RMax(swings)
             lead_changes == LeadChanges(probabilities)
             close_ratio == CloseRatio(probabilities)
             score == RMin(RawScore(avg_swing, max_swing, lead_changes, close_ratio),
                           RInt(10))
         IN  Return([score |-> score,
                     verdict |-> Verdict(score),
                     lead_changes |-> lead_changes,
                     avg_swing |-> avg_swing,
                     max_swing |-> max_swing,
                     close_ratio |-> close_ratio])

\* ---------------------------------------------------- Python list.sort
\* xs.sort(key=..., reverse=True): the stable descending sort.  `keys` holds
\* the key of each element, computed once; the positions 1..Len(xs) are
\* ordered: position `i` is inserted into the ordered list `sorted`
\* behind every position whose key is not smaller, so equal keys keep the
\* order in which they were met.
\* Mutant: an ascending sort that is then reversed, which turns ties round:
\* position `i` goes in front of the positions with an equal key.
RECURSIVE InsertDescReversingTies(_, _, _)
InsertDescReversingTies(i, sorted, keys) ==
    IF sorted = <<>> THEN <<i>>
    ELSE IF RLt(keys[i], keys[sorted[1]])
         THEN <<sorted[1]>> \o InsertDescReversingTies(i, Tail(sorted), keys)
         ELSE <<i>> \o sorted

RECURSIVE InsertDesc(_, _, _)
InsertDesc(i, sorted, keys) ==
    IF sorted = <<>> THEN <<i>>
    ELSE IF RGe(keys[sorted[1]], keys[i])
         THEN <<sorted[1]>> \o InsertDesc(i, Tail(sorted), keys)
         ELSE <<i>> \o sorted

RECURSIVE SortFrom(_, _, _)
SortFrom(i, sorted, keys) ==
    IF i > Len(keys) THEN sorted
    ELSE SortFrom(i + 1, InsertDesc(i, sorted, keys), keys)

SortDescending(xs, keys) ==
    LET order == SortFrom(1, <<>>, keys)
    IN  [j \in 1..Len(xs) |-> xs[order[j]]]

\* key=lambda item: item["analysis"].score, over the list (daily ranker)
DailyKey(xs) == [i \in 1..Len(xs) |-> xs[i].analysis.score]
\* key=lambda item: item["score"], over the list (weekly ranker)
WeeklyKey(xs) == [i \in 1..Len(xs) |-> xs[i].score]

\* ------------------------------------------------------- enumerated input
SeqsUpTo(S, n) == UNION {[1..k -> S] : k \in 0..n}

\* Raw sample values, in hundredths: both ends of [0,1], values just
\* outside it, both ends of the toss-up band, values just outside it and
\* the tie value.
Grid == {-1, 0, 44, 45, 50, 55, 56, 100, 150}
RawValues == {Num(x) : x \in Grid} \cup {Text(50), Junk, Null}
RawRecords == {NoField} \cup {Play(v) : v \in RawValues}

Series(xs) == [i \in 1..Len(xs) |-> Play(Num(xs[i]))]

\* The worked examples of the documentation.
Scenarios ==
    { Series(<<50, 52, 48, 90, 85>>),
      Series(<<60, 40, 60>>),
      Series(<<50, 50, 90>>),
      Series(<<50, 90, 50>>),
      Series(<<50, 40>>),
      Series(<<50, 60>>) }

\* The JSON files exciting_game.py can be given: with or without the
\* top-level "winprobability" list.
Payloads ==
    {[other |-> 0]}
    \cup {[other |-> 0, winprobability |-> w] :
            w \in SeqsUpTo(RawRecords, MaxLen) \cup Scenarios}

\* The answer of the summary endpoint for one game: an HTTP error, or a
\* document with or without a "winprobability" list.
SummaryHTTPError == [status |-> "HTTPError"]
SummaryAbsent == [status |-> "ok"]
SummaryWith(w) == [status |-> "ok", winprobability |-> w]

Summaries ==
    { SummaryHTTPError,
      SummaryAbsent,
      SummaryWith(<<>>),
      SummaryWith(<<Play(Num(50)), NoField>>),
      SummaryWith(<<Play(Num(50))>>),
      SummaryWith(<<Play(Null), Play(Num(50))>>),
      SummaryWith(Series(<<50, 50>>)),
      SummaryWith(Series(<<44, 56>>)) }

\* The answers of the scoreboard endpoint for one date: an HTTP error, or
\* a scoreboard from which extract_game_cards takes `count` games, at most
\* `budget` of them.
Scoreboards(budget) ==
    {[status |-> "HTTPError", count |-> 0]}
    \cup {[status |-> "ok", count |-> k] : k \in 0..budget}

\* extract_game_cards: the game cards of a scoreboard.  The games of a run
\* are numbered in the order in which they are listed, `issued` being the
\* number of games listed on earlier dates.
extract_game_cards(scoreboard, issued) ==
    [i \in 1..scoreboard.count |->
        [event_id |-> issued + i, competitors |-> issued + i]]

\* ---------------------------------------------------------------- state
VARIABLES
    prog,             \* the script that runs: "game", "daily" or "weekly"
    pc,               \* where the script is
    exc,              \* the exception that ended the script, "" if none
    payload,          \* exciting_game: the JSON document read
    probabilities,    \* exciting_game: result of load_home_win_probabilities
    analysis,         \* exciting_game: result of calculate_excitement
    dates,            \* rankers: the number of dates asked for
    games,            \* rankers: the game cards of the date being processed
    seen,             \* rankers: the games processed so far with the summary
                      \* fetched for each, in the order they were met
    day,              \* rankers: number of dates already processed
    idx,              \* rankers: number of games of the date already processed
    results,          \* daily: the list `results`
    results_by_date,  \* weekly: the dict `results_by_date`
    stderr,           \* daily: lines printed to sys.stderr
    summary_lines,    \* weekly: the list `summary_lines`
    ranking           \* the ranking given out: the list printed by the daily
                      \* ranker, the dict written to weekly_summary.json

vars == <<prog, pc, exc, payload, probabilities, analysis, dates, games, seen,
          day, idx,
          results, results_by_date, stderr, summary_lines, ranking>>

gameVars == <<payload, probabilities, analysis>>
rankVars ==
    <<dates, games, seen, day, idx, results, results_by_date, stderr,
      summary_lines, ranking>>

None == [none |-> TRUE]

InitGame ==
    /\ prog = "game"
    /\ pc = "load"
    /\ exc = ""
    /\ payload \in Payloads
    /\ probabilities = None
    /\ analysis = None
    /\ dates = 0
    /\ games = <<>>
    /\ seen = <<>>
    /\ day = 0
    /\ idx = 0
    /\ results = <<>>
    /\ results_by_date = <<>>
    /\ stderr = <<>>
    /\ summary_lines = <<>>
    /\ ranking = <<>>

\* exciting_game.main, first half: the key check and the validator.
GameLoad ==
    /\ prog = "game" /\ pc = "load"
    /\ IF "winprobability" \notin DOMAIN payload
       THEN /\ pc' = "crashed" /\ exc' = "KeyError"
            /\ UNCHANGED probabilities
       ELSE LET r == load_home_win_probabilities(payload.winprobability) IN
            /\ probabilities' = r
            /\ IF r.ok THEN pc' = "score" /\ exc' = ""
                       ELSE pc' = "crashed" /\ exc' = r.exc
    /\ UNCHANGED <<prog, payload, analysis, rankVars>>

\* exciting_game.main, second half: the scorer and the printed report.
GameScore ==
    /\ prog = "game" /\ pc = "score"
    /\ LET r == calculate_excitement(probabilities.value) IN
       /\ analysis' = r
       /\ IF r.ok THEN pc' = "exit" /\ exc' = ""
                  ELSE pc' = "crashed" /\ exc' = r.exc
    /\ UNCHANGED <<prog, payload, probabilities, rankVars>>

NextGame == GameLoad \/ GameScore

SpecGame == InitGame /\ [][NextGame]_vars

\* ------------------------------------------------------------- rankers
\* describe_matchup(competitors): the description shown for a game.  The
\* competitors of a game are modelled by the game's number, and so is the
\* description made from them.
describe_matchup(competitors) == competitors

\* Python: max(a, b)  (the first argument is returned on a tie)
RMax2(a, b) == IF RLt(a, b) THEN b ELSE a

\* summary.get("winprobability") followed by
\* `not isinstance(winprob, list) or not winprob`
NoWinprob(summary) ==
    \/ "winprobability" \notin DOMAIN summary
    \/ summary.winprobability = <<>>

\* daily_exciting_games.analyze_game: raises, returns None or an outcome.
analyze_game(event_id, competitors, summary) ==
    IF summary.status = "HTTPError"
    THEN Raise("HTTPError", "summary", <<>>)
    ELSE IF NoWinprob(summary)
    THEN Return(None)
    ELSE LET l == load_home_win_probabilities(summary.winprobability) IN
         IF ~l.ok THEN l
         ELSE LET c == calculate_excitement(l.value) IN
              IF ~c.ok THEN c
              ELSE Return([event_id |-> event_id,
                           matchup |-> describe_matchup(competitors),
                           analysis |-> c.value])

\* The dict appended to results_by_date by the weekly ranker (charts are
\* disabled, so "image" is None).
WeeklyEntry(date, matchup, excitement) ==
    [date |-> date,
     matchup |-> matchup,
     score |-> excitement.score,
     score_percent |-> RMax2(RInt(0), RMin(RInt(1), RDiv(excitement.score, RInt(10)))),
     verdict |-> excitement.verdict,
     lead_changes |-> excitement.lead_changes,
     max_swing |-> excitement.max_swing,
     image |-> "None"]

\* Mutant: the date's list is replaced instead of being appended to.
SetDefaultOverwrite(dict, date, entry) ==
    IF date \in DOMAIN dict
    THEN [dict EXCEPT ![date] = <<entry>>]
    ELSE dict @@ (date :> <<entry>>)

\* results_by_date.setdefault(date, []).append(entry)
SetDefaultAppend(dict, date, entry) ==
    IF date \in DOMAIN dict
    THEN [dict EXCEPT ![date] = Append(@, entry)]
    ELSE dict @@ (date :> <<entry>>)

\* The number of games listed so far.
Issued == IF idx < Len(games) THEN games[Len(games)].event_id ELSE Len(seen)

\* A run of a ranker: one date for the daily ranker, `--days` dates for the
\* weekly one.
InitRank ==
    /\ prog \in {"daily", "weekly"}
    /\ pc = "scoreboard"
    /\ exc = ""
    /\ payload = None
    /\ probabilities = None
    /\ analysis = None
    /\ dates \in 1..MaxDays
    /\ prog = "daily" => dates = 1
    /\ games = <<>>
    /\ seen = <<>>
    /\ day = 0
    /\ idx = 0
    /\ results = <<>>
    /\ results_by_date = <<>>
    /\ stderr = <<>>
    /\ summary_lines = <<>>
    /\ ranking = <<>>

\* daily main: the scoreboard fetch and extract_game_cards.
DailyScoreboard ==
    /\ prog = "daily" /\ pc = "scoreboard"
    /\ day' = day + 1
    /\ \E scoreboard \in Scoreboards(MaxGames - Issued) :
          IF scoreboard.status = "HTTPError"
          THEN /\ stderr' = Append(stderr, [event_id |-> 0,
                                            text |-> "Failed to fetch scoreboard"])
               /\ pc' = "exit"
               /\ UNCHANGED games
          ELSE /\ games' = extract_game_cards(scoreboard, Issued)
               /\ stderr' = stderr
               /\ pc' = IF games' = <<>> THEN "exit" ELSE "games"
    /\ UNCHANGED <<prog, exc, gameVars, dates, seen, idx, results,
                   results_by_date, summary_lines, ranking>>

\* daily main: one pass of `for game in games`, the summary fetched for the
\* game being any of Summaries.
DailyGame ==
    /\ prog = "daily" /\ pc = "games"
    /\ \E summary \in Summaries :
       LET game == games[idx + 1]
           r == analyze_game(game.event_id, game.competitors, summary)
           next == IF idx + 1 = Len(games) THEN "rank" ELSE "games"
       IN  /\ seen' = Append(seen, [date |-> day, event_id |-> game.event_id,
                                    competitors |-> game.competitors,
                                    summary |-> summary])
           /\ IF ~r.ok /\ r.exc = "HTTPError"
              THEN /\ stderr' = Append(stderr, [event_id |-> game.event_id,
                                                text |-> "Failed to fetch summary"])
                   /\ pc' = next /\ idx' = idx + 1
                   /\ UNCHANGED <<exc, results>>
              ELSE IF ~r.ok /\ r.exc \in {"KeyError", "ValueError"}
              THEN /\ stderr' = Append(stderr, [event_id |-> game.event_id,
                                                text |-> "Skipping event"])
                   /\ pc' = next /\ idx' = idx + 1
                   /\ UNCHANGED <<exc, results>>
              ELSE IF ~r.ok
              THEN /\ pc' = "crashed" /\ exc' = r.exc
                   /\ idx' = idx + 1
                   /\ UNCHANGED <<stderr, results>>
              ELSE /\ results' = IF r.value # None THEN Append(results, r.value)
                                                   ELSE results
                   /\ pc' = next /\ idx' = idx + 1
                   /\ UNCHANGED <<exc, stderr>>
    /\ UNCHANGED <<prog, gameVars, dates, games, day, results_by_date,
                   summary_lines, ranking>>

\* daily main: after the loop, the sort and the printed ranking.
DailyRank ==
    /\ prog = "daily" /\ pc = "rank"
    /\ pc' = "exit"
    /\ IF results = <<>>
       THEN UNCHANGED <<results, ranking>>
       ELSE /\ results' = SortDescending(results, DailyKey(results))
            /\ ranking' = results'
    /\ UNCHANGED <<prog, exc, gameVars, dates, games, seen, day, idx,
                   results_by_date, stderr, summary_lines>>

\* weekly main: one pass of `for target_date in dates` up to the game loop.
WeeklyScoreboard ==
    /\ prog = "weekly" /\ pc = "scoreboard"
    /\ day' = day + 1
    /\ idx' = 0
    /\ \E scoreboard \in Scoreboards(MaxGames - Issued) :
       LET next == IF day + 1 = dates THEN "rank" ELSE "scoreboard" IN
       IF scoreboard.status = "HTTPError"
       THEN /\ summary_lines' = Append(summary_lines,
                  [date |-> day + 1, matchup |-> 0, text |-> "failed to fetch scoreboard"])
            /\ games' = <<>>
            /\ pc' = next
       ELSE /\ games' = extract_game_cards(scoreboard, Issued)
            /\ IF games' = <<>>
               THEN /\ summary_lines' = Append(summary_lines,
                          [date |-> day + 1, matchup |-> 0, text |-> "no games."])
                    /\ pc' = next
               ELSE /\ summary_lines' = summary_lines
                    /\ pc' = "games"
    /\ UNCHANGED <<prog, exc, gameVars, dates, seen, results, results_by_date,
                   stderr, ranking>>

\* weekly main: one pass of `for game in games`, the summary fetched for
\* the game being any of Summaries.
WeeklyGame ==
    /\ prog = "weekly" /\ pc = "games"
    /\ \E summary \in Summaries :
       LET game == games[idx + 1]
           matchup == describe_matchup(game.competitors)
           next == IF idx + 1 < Len(games) THEN "games"
                   ELSE IF day = dates THEN "rank" ELSE "scoreboard"
           Line(text) == [date |-> day, matchup |-> matchup, text |-> text]
           Skip(text) ==
               /\ summary_lines' = Append(summary_lines, Line(text))
               /\ pc' = next
               /\ UNCHANGED <<exc, results_by_date>>
           Crash(e) ==
               /\ pc' = "crashed" /\ exc' = e
               /\ UNCHANGED <<summary_lines, results_by_date>>
       IN  /\ seen' = Append(seen, [date |-> day, event_id |-> game.event_id,
                                    competitors |-> game.competitors,
                                    summary |-> summary])
           /\ idx' = idx + 1
           /\ IF summary.status = "HTTPError" THEN Skip("summary fetch failed")
              ELSE IF NoWinprob(summary) THEN Skip("no win probability data.")
              ELSE LET l == load_home_win_probabilities(summary.winprobability) IN
                   IF ~l.ok /\ l.exc \in {"KeyError", "ValueError"}
                   THEN Skip("invalid data")
                   ELSE IF ~l.ok THEN Crash(l.exc)
                   ELSE LET c == calculate_excitement(l.value) IN
                        IF ~c.ok THEN Crash(c.exc)
                        ELSE /\ summary_lines' = Append(summary_lines,
                                        Line("excitement (charts disabled)"))
                             /\ results_by_date' =
                                   SetDefaultAppend(results_by_date, day,
                                                    WeeklyEntry(day, matchup, c.value))
                             /\ pc' = next
                             /\ UNCHANGED exc
    /\ UNCHANGED <<prog, gameVars, dates, games, day, results, stderr, ranking>>

\* weekly main: after the loops, the per-date sort and the summary file.
WeeklyFinish ==
    /\ prog = "weekly" /\ pc = "rank"
    /\ pc' = "exit"
    /\ IF DOMAIN results_by_date = {}
       THEN UNCHANGED <<results_by_date, ranking>>
       ELSE /\ results_by_date' =
                 [k \in DOMAIN results_by_date |->
                     SortDescending(results_by_date[k],
                                    WeeklyKey(results_by_date[k]))]
            /\ ranking' = results_by_date'
    /\ UNCHANGED <<prog, exc, gameVars, dates, games, seen, day, idx, results,
                   stderr, summary_lines>>

NextRank ==
    \/ DailyScoreboard
    \/ DailyGame
    \/ DailyRank
    \/ WeeklyScoreboard
    \/ WeeklyGame
    \/ WeeklyFinish

SpecRank == InitRank /\ [][NextRank]_vars

Init == InitGame \/ InitRank
Next == NextGame \/ NextRank
Spec == Init /\ [][Next]_vars

\* ------------------------------------------- the input, read for the claims
\* The record list given to exciting_game.py, when the document has one.
HasList == prog = "game" /\ "winprobability" \in DOMAIN payload
W == payload.winprobability

Carries(play) == "homeWinPercentage" \in DOMAIN play
Numeric(play) == Carries(play) /\ play.homeWinPercentage.t \in {"num", "text"}
\* The record carries a number of the closed interval [0,1].
InUnit(play) ==
    /\ Numeric(play)
    /\ 0 <= play.homeWinPercentage.x
    /\ play.homeWinPercentage.x <= 100
\* The i-th sample, in hundredths.
X(i) == W[i].homeWinPercentage.x

ValidInput == W # <<>> /\ \A i \in 1..Len(W) : InUnit(W[i])

\* The 1-based position of the first record the validator cannot accept,
\* 0 when there is none.
FirstBad ==
    IF \E i \in 1..Len(W) : ~InUnit(W[i])
    THEN CHOOSE i \in 1..Len(W) :
            ~InUnit(W[i]) /\ \A j \in 1..(i - 1) : InUnit(W[j])
    ELSE 0

\* The kind of a raised error: its class and the fixed text of its message.
Kind(e) == <<e.exc, e.text>>

Scored == HasList /\ pc = "exit"

\* ------------------------------------------------------------------ C3
\* C3: every series of at least two samples, all in [0,1], is scored; the
\* score lies in [0,10] and the verdict is "Exciting" iff score >= 6.5,
\* "Worth a look" iff 4.0 <= score < 6.5 and "Skip it" iff score < 4.0.
C3_ScoreAndVerdict ==
    /\ (HasList /\ pc \in {"exit", "crashed"} /\ ValidInput /\ Len(W) >= 2)
          => pc = "exit"
    /\ Scored =>
          LET a == analysis.value
              s == a.score
          IN  /\ 0 <= s.n /\ s.n <= 10 * s.d
              /\ a.verdict \in {"Exciting", "Worth a look", "Skip it"}
              /\ (a.verdict = "Exciting") <=> (2 * s.n >= 13 * s.d)
              /\ (a.verdict = "Worth a look") <=>
                    (s.n >= 4 * s.d /\ 2 * s.n < 13 * s.d)
              /\ (a.verdict = "Skip it") <=> (s.n < 4 * s.d)

C3_Witness ==
    /\ Scored
    /\ analysis.value.verdict = "Worth a look"
    /\ RLt(RInt(4), analysis.value.score)

\* ------------------------------------------------------------------ C5
Scenario5 == Series(<<50, 52, 48, 90, 85>>)

\* C5 as stated: [0.5, 0.52, 0.48, 0.9, 0.85] has swings
\* [0.02, 0.04, 0.42, 0.05], avg_swing 0.1325, max_swing 0.42,
\* lead_changes 1, close_ratio 3/5, score 8.0 and verdict "Exciting".
C5_AsStated ==
    (Scored /\ W = Scenario5) =>
        LET a == analysis.value IN
        /\ Swings(probabilities.value)
              = <<Rat(2, 100), Rat(4, 100), Rat(42, 100), Rat(5, 100)>>
        /\ a.avg_swing = Rat(1325, 10000)
        /\ a.max_swing = Rat(42, 100)
        /\ a.lead_changes = 1
        /\ a.close_ratio = Rat(3, 5)
        /\ a.score = RInt(8)
        /\ a.verdict = "Exciting"

\* C5 amended: the same series has lead_changes 2 (0.52 -> 0.48 and
\* 0.48 -> 0.9 both cross 0.5), hence score 2.5 + 2.5 + 2.0 + 2.0 = 9.0;
\* the swings, avg_swing, max_swing, close_ratio and verdict are as stated.
C5_Scenario ==
    (Scored /\ W = Scenario5) =>
        LET a == analysis.value IN
        /\ Swings(probabilities.value)
              = <<Rat(2, 100), Rat(4, 100), Rat(42, 100), Rat(5, 100)>>
        /\ a.avg_swing = Rat(1325, 10000)
        /\ a.max_swing = Rat(42, 100)
        /\ a.lead_changes = 2
        /\ a.close_ratio = Rat(3, 5)
        /\ a.score = RInt(9)
        /\ a.verdict = "Exciting"

C5_Witness == Scored /\ W = Scenario5 /\ analysis.value.lead_changes = 2

C7_ErrorIdentifiesInput ==
    (HasList /\ pc = "crashed" /\ ~probabilities.ok) =>
        LET e == probabilities IN
        /\ e.text = MsgMissing =>
              \E k \in DOMAIN e.args : e.args[k] = FirstBad - 1
        /\ e.text = MsgRange =>
              /\ \E k \in DOMAIN e.args : e.args[k] = FirstBad - 1
              /\ \E k \in DOMAIN e.args : e.args[k] = X(FirstBad)

\* ------------------------------------------------------------------ C8
\* C8: lead_changes is the number of adjacent pairs with
\* (p[i] >= 0.5) != (p[i+1] >= 0.5); 0.5 is on the home side, so
\* 0.5 -> 0.4 is a lead change, 0.5 -> 0.6 is none, and [0.6, 0.4, 0.6]
\* has two.
C8_LeadChanges ==
    Scored =>
        LET lc == analysis.value.lead_changes IN
        /\ lc = Cardinality({i \in 1..(Len(W) - 1) :
                                (X(i) >= 50) # (X(i + 1) >= 50)})
        /\ W = Series(<<50, 40>>) => lc = 1
        /\ W = Series(<<50, 60>>) => lc = 0
        /\ W = Series(<<60, 40, 60>>) => lc = 2

C8_Witness ==
    Scored /\ W = Series(<<60, 40, 60>>) /\ analysis.value.lead_changes = 2

\* ------------------------------------------------------------------ C9
\* C9: close_ratio is the number of samples in the closed band
\* [0.45, 0.55] divided by the number of samples; [0.5, 0.5, 0.9] gives 2/3.
C9_CloseRatio ==
    Scored =>
        LET cr == analysis.value.close_ratio
            inBand == {i \in 1..Len(W) : 45 <= X(i) /\ X(i) <= 55}
        IN  /\ cr.n * Len(W) = Cardinality(inBand) * cr.d
            /\ W = Series(<<50, 50, 90>>) => cr = [n |-> 2, d |-> 3]

C9_Witness ==
    Scored /\ W = Series(<<50, 50, 90>>)
           /\ analysis.value.close_ratio = [n |-> 2, d |-> 3]

\* ----------------------------------------------------------------- C10
\* C10: the validator succeeds iff the list is non-empty and every record
\* carries a number of [0,1]; the series returned has the length of the
\* list, its i-th element is the i-th record's value, and every element is
\* in [0,1].
C10_Validator ==
    (HasList /\ pc # "load") =>
        /\ probabilities.ok <=> ValidInput
        /\ probabilities.ok =>
              LET ps == probabilities.value IN
              /\ Len(ps) = Len(W)
              /\ \A i \in 1..Len(W) :
                    /\ ps[i].n * 100 = X(i) * ps[i].d
                    /\ 0 <= ps[i].n /\ ps[i].n <= ps[i].d

C10_Witness ==
    /\ HasList /\ pc = "score"
    /\ Len(W) >= 2
    /\ \E i \in 1..Len(W) : X(i) = 0
    /\ \E i \in 1..Len(W) : X(i) = 100

\* ------------------------------------------- the batch, read for the claims
Ranker == prog \in {"daily", "weekly"}

\* Every game of the batch whose summary was asked for.
GameSet == {seen[i] : i \in 1..Len(seen)}

HasSeries(game) ==
    game.summary.status = "ok" /\ "winprobability" \in DOMAIN game.summary

\* The game's series validates and scores.
Successful(game) ==
    /\ HasSeries(game)
    /\ game.summary.winprobability # <<>>
    /\ load_home_win_probabilities(game.summary.winprobability).ok
    /\ calculate_excitement(
          load_home_win_probabilities(game.summary.winprobability).value).ok

\* The game's series fails with one of the four error kinds: a missing
\* field, an out-of-range value, an empty list, fewer than two samples.
FailsByKind(game) ==
    /\ HasSeries(game)
    /\ LET w == game.summary.winprobability
           l == load_home_win_probabilities(w)
       IN  \/ w = <<>>
           \/ ~l.ok /\ l.text \in {MsgMissing, MsgRange}
           \/ l.ok /\ Len(w) < 2

\* The game's series fails in another way (a value float() cannot convert).
FailsOtherwise(game) ==
    /\ HasSeries(game)
    /\ game.summary.winprobability # <<>>
    /\ ~load_home_win_probabilities(game.summary.winprobability).ok
    /\ load_home_win_probabilities(game.summary.winprobability).text = MsgFloat

\* The score the scorer gives a successful game.
ScoreOfGame(game) ==
    calculate_excitement(
        load_home_win_probabilities(game.summary.winprobability).value).value.score

\* The ranking given out for date `k`, its entries' games and scores.
RankingOf(k) ==
    IF prog = "daily" THEN ranking
    ELSE IF k \in DOMAIN ranking THEN ranking[k] ELSE <<>>
EntryId(entry) == IF prog = "daily" THEN entry.event_id ELSE entry.matchup
EntryScore(entry) == IF prog = "daily" THEN entry.analysis.score ELSE entry.score

InRanking(game) ==
    \E k \in 1..dates :
        \E i \in 1..Len(RankingOf(k)) : EntryId(RankingOf(k)[i]) = game.event_id

\* The game was reported to the caller as skipped, with a reason.
Reported(game) ==
    IF prog = "daily"
    THEN \E i \in 1..Len(stderr) : stderr[i].event_id = game.event_id
    ELSE \E i \in 1..Len(summary_lines) :
            /\ summary_lines[i].matchup = describe_matchup(game.competitors)
            /\ summary_lines[i].text # "excitement (charts disabled)"

Terminated == pc \in {"exit", "crashed"}

\* ------------------------------------------------------------------ C1
\* C1: in both rankers, when a batch holds games that validate and score
\* and games that fail with one of the four error kinds (and none that
\* fails in another way), the run completes, the failing games are left out
\* and every game that validates and scores is in the ranking given out:
\* one game's failure never aborts the batch.
C1_BadGameNeverAbortsBatch ==
    (/\ Ranker /\ Terminated
     /\ \E game \in GameSet : FailsByKind(game)
     /\ \E game \in GameSet : Successful(game)
     /\ \A game \in GameSet : ~FailsOtherwise(game))
    => /\ pc = "exit"
       /\ \A game \in GameSet :
             /\ Successful(game) => InRanking(game)
             /\ FailsByKind(game) => ~InRanking(game)

\* The same for the daily ranker alone, which catches KeyError and
\* ValueError around the whole of analyze_game.
DailyBadGameNeverAbortsBatch == prog = "daily" => C1_BadGameNeverAbortsBatch

\* ------------------------------------------------------------------ C2
\* C2: after a completed batch run of either ranker every game is in the
\* ranking given out or was reported with a skip reason, a game without
\* win-probability list or with an empty one included.
C2_EveryGameAccountedFor ==
    (Ranker /\ pc = "exit") =>
        \A game \in GameSet : InRanking(game) \/ Reported(game)

\* ------------------------------------------------------------------ C4
\* C4: the ranking given out for a date holds exactly the successfully
\* scored games of that date, each with its score, in non-increasing score
\* order, and games of equal score in the order in which they were met.
C4_StableRanking ==
    (Ranker /\ pc = "exit") =>
        \A k \in 1..dates :
            LET out == RankingOf(k)
                OfDate(game) == game.date = k /\ Successful(game)
                met == SelectSeq(seen, OfDate)
            IN  /\ Len(out) = Len(met)
                /\ {EntryId(out[i]) : i \in 1..Len(out)}
                      = {met[i].event_id : i \in 1..Len(met)}
                /\ \A i \in 1..Len(out) : \A game \in GameSet :
                      game.event_id = EntryId(out[i])
                         => EntryScore(out[i]) = ScoreOfGame(game)
                /\ \A i, j \in 1..Len(out) :
                      i < j =>
                         /\ RGe(EntryScore(out[i]), EntryScore(out[j]))
                         /\ EntryScore(out[i]) = EntryScore(out[j])
                               => EntryId(out[i]) < EntryId(out[j])

C4_Witness ==
    /\ Ranker /\ pc = "exit"
    /\ \E k \in 1..dates :
          LET out == RankingOf(k) IN
          /\ Len(out) >= 3
          /\ \E i, j \in 1..Len(out) :
                i < j /\ EntryScore(out[i]) = EntryScore(out[j])
          /\ \E i, j \in 1..Len(out) :
                i < j /\ EntryId(out[i]) > EntryId(out[j])

\* ----------------------------------------------------------------- C11
\* The absolute difference of samples i and i+1, in hundredths.
Diff(i) == Abs(X(i + 1) - X(i))

RECURSIVE SumDiff(_)
SumDiff(k) == IF k = 0 THEN 0 ELSE Diff(k) + SumDiff(k - 1)

\* C11: a valid series of n >= 2 samples has n-1 swings
\* swing[i] = |p[i+1] - p[i]|; avg_swing is their sum divided by n-1 and
\* max_swing is the largest of them; [0.5, 0.9, 0.5] gives 0.4 and 0.4.
C11_Swings ==
    Scored =>
        LET a == analysis.value
            n == Len(W)
            sw == Swings(probabilities.value)
        IN  /\ n >= 2
            /\ Len(sw) = n - 1
            /\ \A i \in 1..(n - 1) : sw[i].n * 100 = Diff(i) * sw[i].d
            /\ a.avg_swing.n * 100 * (n - 1) = SumDiff(n - 1) * a.avg_swing.d
            /\ \E i \in 1..(n - 1) : a.max_swing.n * 100 = Diff(i) * a.max_swing.d
            /\ \A i \in 1..(n - 1) : a.max_swing.n * 100 >= Diff(i) * a.max_swing.d
            /\ W = Series(<<50, 90, 50>>) =>
                  a.avg_swing = [n |-> 2, d |-> 5] /\ a.max_swing = [n |-> 2, d |-> 5]

C11_Witness ==
    /\ Scored /\ W = Series(<<50, 90, 50>>)
    /\ analysis.value.avg_swing = [n |-> 2, d |-> 5]
    /\ analysis.value.max_swing = [n |-> 2, d |-> 5]

\* ----------------------------------------------------------------- C12
\* The places <<date key, position>> at which a game stands in a dict of
\* per-date lists.
PlacesOf(game, dict) ==
    {kp \in UNION {{<<k, i>> : i \in 1..Len(dict[k])} : k \in DOMAIN dict} :
        dict[kp[1]][kp[2]].matchup = describe_matchup(game.competitors)}

\* C12: in the weekly ranker every successfully scored game stands exactly
\* once in results_by_date, under the key of the date it was fetched for;
\* a date without a successfully scored game has no key; and after a
\* completed run the dict given out is results_by_date with every date's
\* list in non-increasing score order.
C12_PerDateRanking ==
    prog = "weekly" =>
        LET good == {game \in GameSet : Successful(game)}
        IN  /\ \A game \in GameSet :
                  IF game \in good
                  THEN /\ \A kp \in PlacesOf(game, results_by_date) :
                             kp[1] = game.date
                       /\ Cardinality(PlacesOf(game, results_by_date)) = 1
                  ELSE PlacesOf(game, results_by_date) = {}
            /\ \A k \in DOMAIN results_by_date :
                  /\ k \in 1..dates
                  /\ \A i \in 1..Len(results_by_date[k]) :
                        /\ results_by_date[k][i].date = k
                        /\ \E game \in good :
                              /\ game.date = k
                              /\ results_by_date[k][i].matchup
                                    = describe_matchup(game.competitors)
            /\ \A k \in 1..dates :
                  k \in DOMAIN results_by_date
                     <=> \E game \in good : game.date = k
            /\ pc = "exit" =>
                  /\ ranking = results_by_date
                  /\ \A k \in DOMAIN ranking :
                        \A i, j \in 1..Len(ranking[k]) :
                           i < j => RGe(ranking[k][i].score,
                                        ranking[k][j].score)

C12_Witness ==
    /\ prog = "weekly" /\ pc = "exit"
    /\ DOMAIN ranking = {1, 2}
    /\ \E k \in DOMAIN ranking : \E i, j \in 1..Len(ranking[k]) :
          i < j /\ ranking[k][i].matchup > ranking[k][j].matchup

C15_FailFast ==
    (HasList /\ pc # "load") =>
        /\ FirstBad > 0 =>
              LET e == probabilities
                  play == W[FirstBad]
              IN  /\ ~e.ok
                  /\ ~Carries(play) =>
                        /\ Kind(e) = <<"KeyError", MsgMissing>>
                        /\ e.args = <<FirstBad - 1>>
                  /\ (Carries(play) /\ ~Numeric(play)) =>
                        /\ e.text = MsgFloat
                        /\ e.exc = (IF play.homeWinPercentage.t = "null"
                                    THEN "TypeError" ELSE "ValueError")
                  /\ Numeric(play) =>
                        /\ Kind(e) = <<"ValueError", MsgRange>>
                        /\ e.args = <<FirstBad - 1>>
                  /\ e = load_home_win_probabilities(SubSeq(W, 1, FirstBad))
        /\ (~probabilities.ok /\ Kind(probabilities) = <<"ValueError", MsgEmpty>>)
              <=> W = <<>>

\* Two bad records of different defects, the out-of-range one first.
C15_Witness ==
    /\ HasList /\ pc = "crashed"
    /\ FirstBad > 0 /\ FirstBad < Len(W)
    /\ Numeric(W[FirstBad])
    /\ \E j \in (FirstBad + 1)..Len(W) : ~Carries(W[j])
    /\ Kind(probabilities) = <<"ValueError", MsgRange>>
====
